---- MODULE Spec2Model ----
(***************************************************************************)
(* Model of the automaton_trial crate: the regex tokenizer and parser      *)
(* (regex.rs), the NFA builder, the subset construction and the NFA-view   *)
(* adapter (lib.rs).  A string is a sequence of one-character strings;     *)
(* state handles are the 0-based positions of the Rust vectors.            *)
(***************************************************************************)
EXTENDS Integers, Sequences, FiniteSets, TLC

VARIABLES input, pc, err, ast, rest, nfa, states, state_map, unchecked_states,
          original_dfa, dfa, popped_states, reachables

vars == <<input, pc, err, ast, rest, nfa, states, state_map, unchecked_states,
          original_dfa, dfa, popped_states, reachables>>

(* ---------------------------- bounds ----------------------------------- *)

\* longest pattern enumerated exhaustively over PatternAlphabet
MaxLen == 5
\* longest input string on which two automata are compared
MaxStr == 4
\* largest syntax tree (in nodes) enumerated by InitAst
MaxNodes == 5
\* longest sequence of handles given to epsilon_closure
MaxSeq == 3

(* ---------------------------- helpers ---------------------------------- *)

Range(f) == {f[i] : i \in DOMAIN f}

Min(S) == CHOOSE x \in S : \A y \in S : x <= y

\* ascending iteration of a BTreeSet<usize>
RECURSIVE SortedSeq(_)
SortedSeq(S) == IF S = {} THEN <<>> ELSE <<Min(S)>> \o SortedSeq(S \ {Min(S)})

\* the order of char in a BTreeMap<char, _>
CharCode(c) ==
    CASE c = "(" -> 40 [] c = ")" -> 41 [] c = "*" -> 42
      [] c = "a" -> 97 [] c = "b" -> 98 [] c = "c" -> 99 [] c = "d" -> 100
      [] c = "x" -> 120 [] c = "|" -> 124

MinChar(S) == CHOOSE x \in S : \A y \in S : CharCode(x) <= CharCode(y)

\* ascending iteration of the keys of a BTreeMap<char, _>
RECURSIVE SortedChars(_)
SortedChars(S) == IF S = {} THEN <<>> ELSE <<MinChar(S)>> \o SortedChars(S \ {MinChar(S)})

Drop(s, n) == SubSeq(s, n + 1, Len(s))

Take(s, n) == SubSeq(s, 1, n)

(* ---------------------------- regex.rs: syntax tree -------------------- *)

Atom(literal) == [kind |-> "Atom", literal |-> literal]

Repeat(pattern) == [kind |-> "Repeat", pattern |-> pattern]

Or(left, right) == [kind |-> "Or", left |-> left, right |-> right]

Join(left, right) == [kind |-> "Join", left |-> left, right |-> right]

\* the value of ast before a tree exists
NoNode == [kind |-> "None"]

(* ---------------------------- regex.rs: tokenizer ---------------------- *)

SpecialChars == {"(", ")", "*", "|"}

Literal(text) == [kind |-> "Literal", literal |-> text]

LParen == [kind |-> "LParen", literal |-> <<>>]

RParen == [kind |-> "RParen", literal |-> <<>>]

Asterisk == [kind |-> "Asterisk", literal |-> <<>>]

VerticalBar == [kind |-> "VerticalBar", literal |-> <<>>]

\* Option<&Token>::None
NoToken == [kind |-> "None", literal |-> <<>>]

\* variant: a literal token is the first character alone
FindSpecialOne(s) == 1

\* s.find(special).unwrap_or(s.len()): the byte offset of the first special character
FindSpecial(s) ==
    IF \E i \in 1..Len(s) : s[i] \in SpecialChars
    THEN Min({i \in 1..Len(s) : s[i] \in SpecialChars}) - 1
    ELSE Len(s)

take_token(s) ==
    IF s = <<>> THEN [some |-> FALSE, token |-> NoToken, rest |-> <<>>]
    ELSE CASE s[1] = "(" -> [some |-> TRUE, token |-> LParen, rest |-> Tail(s)]
           [] s[1] = ")" -> [some |-> TRUE, token |-> RParen, rest |-> Tail(s)]
           [] s[1] = "*" -> [some |-> TRUE, token |-> Asterisk, rest |-> Tail(s)]
           [] s[1] = "|" -> [some |-> TRUE, token |-> VerticalBar, rest |-> Tail(s)]
           [] OTHER -> [some |-> TRUE, token |-> Literal(Take(s, FindSpecial(s))),
                        rest |-> Drop(s, FindSpecial(s))]

(* ---------------------------- regex.rs: parser ------------------------- *)

Ok(node, r) == [err |-> "None", node |-> node, rest |-> r]

Err(e) == [err |-> e, node |-> NoNode, rest |-> <<>>]

\* the terminal handed to the parse of the inside of a group (regex.rs:71)
GroupTerminal(terminal) == terminal

\* the closing token required after the inside of a group (regex.rs:72-76)
CloseGroup(p) ==
    LET t == take_token(p.rest) IN
    IF ~t.some THEN Err("UnexpectedEnd")
    ELSE IF t.token = RParen THEN Ok(p.node, t.rest)
    ELSE Err("UnexpectedToken")

\* variant: every `*` of a run of two wraps the primary
WrapRepeatTwice(p) ==
    LET t == take_token(p.rest)
        u == take_token(t.rest) IN
    IF t.some /\ t.token = Asterisk
    THEN IF u.some /\ u.token = Asterisk
         THEN Ok(Repeat(Repeat(p.node)), u.rest)
         ELSE Ok(Repeat(p.node), t.rest)
    ELSE p

\* the optional postfix `*` after a primary (regex.rs:81-87)
WrapRepeat(p) ==
    LET t == take_token(p.rest) IN
    IF t.some /\ t.token = Asterisk THEN Ok(Repeat(p.node), t.rest) ELSE p

\* variant: the right operand of a concatenation has no terminal
JoinTerminalNone == NoToken

\* the terminal handed to the right operand of a concatenation (regex.rs:109)
JoinTerminal == VerticalBar

\* variant: Empty is surfaced as it is
OrErrorUnchanged(e) == e

\* the error of the right operand of `|` as surfaced (regex.rs:103-104)
OrError(e) == IF e = "Empty" THEN "UnexpectedEnd" ELSE e

RECURSIVE parse(_, _)
RECURSIVE parse_loop(_, _, _)

\* the loop of parse (regex.rs:89-121)
parse_loop(node, r0, terminal) ==
    LET t == take_token(r0) IN
    IF ~t.some THEN Ok(node, r0)
    ELSE IF terminal # NoToken /\ t.token = terminal THEN Ok(node, r0)
    ELSE IF t.token = VerticalBar THEN
        LET right == parse(t.rest, NoToken) IN
        IF right.err = "None"
        THEN parse_loop(Or(node, right.node), right.rest, terminal)
        ELSE Err(OrError(right.err))
    ELSE IF t.token = RParen THEN Ok(node, r0)
    ELSE
        LET right == parse(r0, JoinTerminal) IN
        IF right.err = "None"
        THEN parse_loop(Join(node, right.node), right.rest, terminal)
        ELSE Err(right.err)

parse(s, terminal) ==
    LET t == take_token(s) IN
    IF ~t.some THEN Err("Empty")
    ELSE
        LET primary ==
                IF t.token.kind = "Literal" THEN Ok(Atom(t.token.literal), t.rest)
                ELSE IF t.token = LParen THEN
                    LET p == parse(t.rest, GroupTerminal(terminal)) IN
                    IF p.err = "None" THEN CloseGroup(p) ELSE Err(p.err)
                ELSE Err("UnexpectedToken")
        IN  IF primary.err # "None" THEN primary
            ELSE LET w == WrapRepeat(primary) IN parse_loop(w.node, w.rest, terminal)

\* Regex::from_str: the unconsumed remainder is dropped (regex.rs:53)
from_str(s) == parse(s, NoToken)

(* ---------------------------- lib.rs: NFA builder ------------------- *)

\* BTreeMap::new()
EmptyMap == <<>>

\* the state with handle h of a machine (self.states[h])
At(m, h) == m[h + 1]

Handles(m) == 0..(Len(m) - 1)

NewNfaState == [branches |-> EmptyMap, epsilon_transitions |-> <<>>, accepts |-> FALSE]

alloc_state(m) == [m |-> Append(m, NewNfaState), id |-> Len(m)]

\* self.states[state].branches.entry(c).or_default().push(s)
push_branch(m, state, c, s) ==
    LET b == At(m, state).branches
        edges == IF c \in DOMAIN b THEN b[c] ELSE <<>>
        nb == [k \in DOMAIN b \cup {c} |-> IF k = c THEN Append(edges, s) ELSE b[k]]
    IN  [m EXCEPT ![state + 1].branches = nb]

\* variant: the edge is stored on its target
push_epsilon_reversed(m, from, to) ==
    [m EXCEPT ![to + 1].epsilon_transitions = Append(@, from)]

\* self.states[from].epsilon_transitions.push(to)
push_epsilon(m, from, to) ==
    [m EXCEPT ![from + 1].epsilon_transitions = Append(@, to)]

\* machine.states[final_state].accepts = true
set_accepts(m, state) == [m EXCEPT ![state + 1].accepts = TRUE]

RECURSIVE insert_atom(_, _, _)
insert_atom(m, state, literal) ==
    IF literal = <<>> THEN [m |-> m, state |-> state]
    ELSE LET a == alloc_state(m) IN
         insert_atom(push_branch(a.m, state, Head(literal), a.id), a.id, Tail(literal))

\* variant: insert_repeat returns the exit of its body
repeat_exit_body(loop_start, s) == s

\* the handle insert_repeat returns (lib.rs:86)
repeat_exit(loop_start, s) == loop_start

RECURSIVE insert(_, _, _)
insert(m, state, pattern) ==
    CASE pattern.kind = "Atom" -> insert_atom(m, state, pattern.literal)
      [] pattern.kind = "Repeat" ->
            LET a == alloc_state(m)
                loop_start == a.id
                m1 == push_epsilon(a.m, state, loop_start)
                r == insert(m1, loop_start, pattern.pattern)
            IN  [m |-> push_epsilon(r.m, r.state, loop_start),
                 state |-> repeat_exit(loop_start, r.state)]
      [] pattern.kind = "Or" ->
            LET r0 == insert(m, state, pattern.left)
                r1 == insert(r0.m, state, pattern.right)
                a == alloc_state(r1.m)
            IN  [m |-> push_epsilon(push_epsilon(a.m, r0.state, a.id), r1.state, a.id),
                 state |-> a.id]
      [] pattern.kind = "Join" ->
            LET r0 == insert(m, state, pattern.left)
            IN  insert(r0.m, r0.state, pattern.right)

\* variant: a fresh accepting state is allocated behind the final state
from_regex_separate_final(root) ==
    LET a == alloc_state(<<>>)
        r == insert(a.m, a.id, root)
        f == alloc_state(r.m)
    IN  set_accepts(push_epsilon(f.m, r.state, f.id), f.id)

\* Nfa::from_regex after the parse (lib.rs:45-49)
from_regex(root) ==
    LET a == alloc_state(<<>>)
        r == insert(a.m, a.id, root)
    IN  set_accepts(r.m, r.state)

(* ---------------------------- lib.rs: subset construction -------------- *)

RECURSIVE epsilon_closure_loop(_, _, _)
\* while let Some(s) = unchecked.pop()
epsilon_closure_loop(m, unchecked, reachable) ==
    IF unchecked = <<>> THEN reachable
    ELSE LET s == unchecked[Len(unchecked)]
             popped == Take(unchecked, Len(unchecked) - 1)
         IN  IF s \in reachable THEN epsilon_closure_loop(m, popped, reachable)
             ELSE epsilon_closure_loop(m, popped \o At(m, s).epsilon_transitions,
                                       reachable \cup {s})

\* variant: one round of epsilon edges only
epsilon_closure_one_step(m, sts) ==
    Range(sts) \cup UNION {Range(At(m, s).epsilon_transitions) : s \in Range(sts)}

epsilon_closure(m, sts) == epsilon_closure_loop(m, sts, {})

\* the keys of the map built by the first loop of transitions()
transition_chars(m, S) == UNION {DOMAIN At(m, s).branches : s \in S}

\* the value collected for c by the first loop of transitions()
transition_targets(m, S, c) ==
    UNION {Range(At(m, s).branches[c]) : s \in {x \in S : c \in DOMAIN At(m, x).branches}}

\* variant: the second loop of transitions() is missing
transitions_unclosed(m, S) ==
    [c \in transition_chars(m, S) |-> transition_targets(m, S, c)]

transitions(m, S) ==
    [c \in transition_chars(m, S) |->
        epsilon_closure(m, SortedSeq(transition_targets(m, S, c)))]

\* variant: all() in place of any()
all_accept(m, S) == \A s \in S : At(m, s).accepts

\* s.iter().any(|&s| state_machine.states[s].accepts)
any_accepts(m, S) == \E s \in S : At(m, s).accepts

\* variant: only NFA state 0 decides
initial_accepts_of_zero(m, initial_state) == At(m, 0).accepts

\* accepts of DFA state 0 (lib.rs:142-144)
initial_accepts(m, initial_state) == any_accepts(m, initial_state)

NewDfaState(accepts) == [branches |-> EmptyMap, accepts |-> accepts]

\* insertion into a BTreeMap
MapInsert(map, k, v) == [x \in DOMAIN map \cup {k} |-> IF x = k THEN v ELSE map[x]]

RECURSIVE visit_transitions_always_new(_, _, _, _, _, _, _)
\* variant: state_map is never consulted, every target gets a new state
visit_transitions_always_new(m, cs, tr, st, smap, unchecked, branches) ==
    IF cs = <<>>
    THEN [states |-> st, state_map |-> smap, unchecked_states |-> unchecked,
          branches |-> branches]
    ELSE LET c == Head(cs)
             s == tr[c]
             id == Len(st)
         IN  visit_transitions_always_new(m, Tail(cs), tr,
                                          Append(st, NewDfaState(any_accepts(m, s))),
                                          MapInsert(smap, s, id),
                                          Append(unchecked, s),
                                          MapInsert(branches, c, id))

RECURSIVE visit_transitions(_, _, _, _, _, _, _)
\* for (c, s) in transisions { ... } (lib.rs:155-172)
visit_transitions(m, cs, tr, st, smap, unchecked, branches) ==
    IF cs = <<>>
    THEN [states |-> st, state_map |-> smap, unchecked_states |-> unchecked,
          branches |-> branches]
    ELSE LET c == Head(cs)
             s == tr[c]
         IN  IF s \in DOMAIN smap
             THEN visit_transitions(m, Tail(cs), tr, st, smap, unchecked,
                                    MapInsert(branches, c, smap[s]))
             ELSE LET id == Len(st) IN
                  visit_transitions(m, Tail(cs), tr,
                                    Append(st, NewDfaState(any_accepts(m, s))),
                                    MapInsert(smap, s, id),
                                    Append(unchecked, s),
                                    MapInsert(branches, c, id))

\* variant: front() in place of pop_front(), the set stays on the worklist
from_nfa_iteration_no_pop(m, st, smap, unchecked) ==
    LET s == Head(unchecked)
        state_id == smap[s]
        tr == transitions(m, s)
        v == visit_transitions(m, SortedChars(DOMAIN tr), tr, st, smap,
                               unchecked, EmptyMap)
    IN  [states |-> [v.states EXCEPT ![state_id + 1].branches = v.branches],
         state_map |-> v.state_map,
         unchecked_states |-> v.unchecked_states]

\* one iteration of the worklist loop of Dfa::from_nfa (lib.rs:150-175)
from_nfa_iteration(m, st, smap, unchecked) ==
    LET s == Head(unchecked)
        state_id == smap[s]
        tr == transitions(m, s)
        v == visit_transitions(m, SortedChars(DOMAIN tr), tr, st, smap,
                               Tail(unchecked), EmptyMap)
    IN  [states |-> [v.states EXCEPT ![state_id + 1].branches = v.branches],
         state_map |-> v.state_map,
         unchecked_states |-> v.unchecked_states]

(* ---------------------------- lib.rs: reachable states ----------------- *)

RECURSIVE reachable_states_visit_no_push(_, _, _)
\* variant: a new target is recorded but not pushed on the worklist
reachable_states_visit_no_push(targets, reachable, unchecked) ==
    IF targets = <<>> THEN [reachables |-> reachable, unchecked_states |-> unchecked]
    ELSE reachable_states_visit_no_push(Tail(targets), reachable \cup {Head(targets)},
                                        unchecked)

RECURSIVE reachable_states_visit(_, _, _)
\* for &s in dfa.states[state].branches.values() { ... } (lib.rs:192-198)
reachable_states_visit(targets, reachable, unchecked) ==
    IF targets = <<>> THEN [reachables |-> reachable, unchecked_states |-> unchecked]
    ELSE IF Head(targets) \in reachable
         THEN reachable_states_visit(Tail(targets), reachable, unchecked)
         ELSE reachable_states_visit(Tail(targets), reachable \cup {Head(targets)},
                                     Append(unchecked, Head(targets)))

\* the values of a BTreeMap<char, usize> in key order
MapValues(b) == [i \in 1..Cardinality(DOMAIN b) |-> b[SortedChars(DOMAIN b)[i]]]

RECURSIVE reachable_states_loop(_, _, _)
\* while let Some(state) = unchecked_states.pop() (lib.rs:191-199)
reachable_states_loop(d, unchecked, reachable) ==
    IF unchecked = <<>> THEN reachable
    ELSE LET state == unchecked[Len(unchecked)]
             v == reachable_states_visit(MapValues(At(d, state).branches), reachable,
                                         Take(unchecked, Len(unchecked) - 1))
         IN  reachable_states_loop(d, v.unchecked_states, v.reachables)

reachable_states(d, state) == reachable_states_loop(d, <<state>>, {state})

(* ---------------------------- lib.rs: NFA view of a DFA ---------------- *)

\* variant: the view loses the transitions
view_branches_dropping(b) == EmptyMap

\* the branches of one state of the view (lib.rs:113)
view_branches(b) == [k \in DOMAIN b |-> <<b[k]>>]

\* impl From<Dfa> for Nfa
nfa_from_dfa(d) ==
    [i \in 1..Len(d) |->
        [branches |-> view_branches(d[i].branches),
         epsilon_transitions |-> <<>>,
         accepts |-> d[i].accepts]]

(* ---------------------------- inputs ----------------------------------- *)

PatternAlphabet == {"a", "b", "(", ")", "*", "|"}

Str(n, alphabet) == UNION {[1..k -> alphabet] : k \in 0..n}

\* patterns longer than MaxLen that the specification names
ExamplePatterns ==
    { <<"(", "a", "|", "b", ")", "*", "c">>,
      <<"a", "(", "b", "|", "c", ")">>,
      <<"(", "a", "|", "b", ")", "(", "c", "|", "d", ")">>,
      <<"x", "(", "(", "a", "|", "b", ")", ")">>,
      <<"(", "a", ")", "(", "b", ")", "|", "(", "c", ")", "(", "d", ")">>,
      <<"(", "a", ")", "(", "b", ")", "*">>,
      <<"a", "|", "b", "*", "*">>,
      <<"(", "a", ")", "*", "*">>,
      <<"a", "|", "b", ")">>,
      <<"a", "b", "|", "c", "d", "*">> }

Patterns == Str(MaxLen, PatternAlphabet) \cup ExamplePatterns

AstLiterals == {<<"a">>, <<"b">>, <<"a", "b">>}

RECURSIVE AstsOfSize(_)
\* the syntax trees of exactly n nodes
AstsOfSize(n) ==
    IF n = 1 THEN {Atom(l) : l \in AstLiterals}
    ELSE {Repeat(p) : p \in AstsOfSize(n - 1)}
         \cup UNION {UNION {{Or(l, r), Join(l, r)} : l \in AstsOfSize(i), r \in AstsOfSize(n - 1 - i)} :
                     i \in 1..(n - 2)}

\* (a|b)*c
StarOfOrThenC == Join(Repeat(Or(Atom(<<"a">>), Atom(<<"b">>))), Atom(<<"c">>))

ExampleAsts ==
    { StarOfOrThenC,
      Join(Atom(<<"a">>), Or(Atom(<<"b">>), Atom(<<"c">>))),
      Or(Repeat(Or(Atom(<<"a">>), Atom(<<"b">>))), Repeat(Repeat(Atom(<<"a">>)))) }

Asts == UNION {AstsOfSize(n) : n \in 1..MaxNodes} \cup ExampleAsts

(* ---------------------------- state machine ---------------------------- *)

Init ==
    /\ input \in Patterns
    /\ pc = "parse"
    /\ err = "None"
    /\ ast = NoNode
    /\ rest = <<>>
    /\ nfa = <<>>
    /\ states = <<>>
    /\ state_map = EmptyMap
    /\ unchecked_states = <<>>
    /\ original_dfa = <<>>
    /\ dfa = <<>>
    /\ popped_states = <<>>
    /\ reachables = {}

\* Nfa::from_regex, line 44: regex.parse()?
Parse ==
    /\ pc = "parse"
    /\ LET r == from_str(input) IN
        /\ err' = r.err
        /\ ast' = r.node
        /\ rest' = r.rest
        /\ pc' = IF r.err = "None" THEN "nfa" ELSE "error"
    /\ UNCHANGED <<input, nfa, states, state_map, unchecked_states, original_dfa, dfa,
                   popped_states, reachables>>

\* Nfa::from_regex, lines 45-49
BuildNfa ==
    /\ pc = "nfa"
    /\ nfa' = from_regex(ast)
    /\ pc' = "from_nfa"
    /\ UNCHANGED <<input, err, ast, rest, states, state_map, unchecked_states,
                   original_dfa, dfa, popped_states, reachables>>

\* Dfa::from_nfa up to the worklist loop (lib.rs:136-148)
FromNfaStart ==
    /\ pc = "from_nfa"
    /\ LET initial_state == epsilon_closure(nfa, <<0>>) IN
        /\ states' = <<NewDfaState(initial_accepts(nfa, initial_state))>>
        /\ state_map' = MapInsert(EmptyMap, initial_state, 0)
        /\ unchecked_states' = <<initial_state>>
    /\ popped_states' = <<>>
    /\ pc' = "from_nfa_loop"
    /\ UNCHANGED <<input, err, ast, rest, nfa, original_dfa, dfa, reachables>>

\* one iteration of the worklist loop (lib.rs:150-175)
FromNfaLoop ==
    /\ pc = "from_nfa_loop"
    /\ unchecked_states # <<>>
    /\ LET r == from_nfa_iteration(nfa, states, state_map, unchecked_states) IN
        /\ states' = r.states
        /\ state_map' = r.state_map
        /\ unchecked_states' = r.unchecked_states
    /\ popped_states' = Append(popped_states, Head(unchecked_states))
    /\ UNCHANGED <<input, pc, err, ast, rest, nfa, original_dfa, dfa, reachables>>

\* the worklist is empty: Self { states } (lib.rs:177)
FromNfaReturn ==
    /\ pc = "from_nfa_loop"
    /\ unchecked_states = <<>>
    /\ original_dfa' = states
    /\ pc' = "view"
    /\ UNCHANGED <<input, err, ast, rest, nfa, states, state_map, unchecked_states, dfa,
                   popped_states, reachables>>

\* compile_regex, lines 18-20
NfaView ==
    /\ pc = "view"
    /\ dfa' = nfa_from_dfa(original_dfa)
    /\ pc' = "done"
    /\ UNCHANGED <<input, err, ast, rest, nfa, states, state_map, unchecked_states,
                   original_dfa, popped_states, reachables>>

\* Dfa::optimize on the DFA from_nfa returned: the reachable handles are
\* computed, then todo!() panics (lib.rs:180-184)
Optimize ==
    /\ pc = "view"
    /\ reachables' = reachable_states(original_dfa, 0)
    /\ pc' = "panicked"
    /\ UNCHANGED <<input, err, ast, rest, nfa, states, state_map, unchecked_states,
                   original_dfa, dfa, popped_states>>

Next ==
    Parse \/ BuildNfa \/ FromNfaStart \/ FromNfaLoop \/ FromNfaReturn \/ NfaView \/ Optimize

\* compile_regex on every pattern
Spec == Init /\ [][Next]_vars

\* the builders applied to a syntax tree that did not come from the parser
InitAst ==
    /\ input = <<>>
    /\ pc = "nfa"
    /\ err = "None"
    /\ ast \in Asts
    /\ rest = <<>>
    /\ nfa = <<>>
    /\ states = <<>>
    /\ state_map = EmptyMap
    /\ unchecked_states = <<>>
    /\ original_dfa = <<>>
    /\ dfa = <<>>
    /\ popped_states = <<>>
    /\ reachables = {}

NextAst == BuildNfa \/ FromNfaStart \/ FromNfaLoop \/ FromNfaReturn \/ NfaView \/ Optimize

SpecAst == InitAst /\ [][NextAst]_vars

(* ---------------------------- reference semantics ---------------------- *)

\* the handles reachable from S over epsilon edges, as a least fixed point
RECURSIVE EpsReach(_, _)
EpsReach(m, S) ==
    LET T == S \cup UNION {Range(At(m, s).epsilon_transitions) : s \in S}
    IN  IF T = S THEN S ELSE EpsReach(m, T)

\* the handles reached from S by one transition on c
Move(m, S, c) ==
    UNION {Range(At(m, s).branches[c]) : s \in {x \in S : c \in DOMAIN At(m, x).branches}}

RECURSIVE Run(_, _, _)
Run(m, S, w) == IF w = <<>> THEN S ELSE Run(m, EpsReach(m, Move(m, S, Head(w))), Tail(w))

\* acceptance of w by a machine of the NFA shape, from handle 0
NfaAccepts(m, w) == \E s \in Run(m, EpsReach(m, {0}), w) : At(m, s).accepts

\* the characters a machine has transitions on
AlphabetOf(m) == UNION {DOMAIN At(m, h).branches : h \in Handles(m)}

\* the words of A.B no longer than MaxStr
Concat(A, B) == {w \in {u \o v : u \in A, v \in B} : Len(w) <= MaxStr}

RECURSIVE Star(_, _)
Star(L, acc) ==
    LET n == acc \cup Concat(acc, L) IN IF n = acc THEN acc ELSE Star(L, n)

\* the words of length <= MaxStr in the language a syntax tree denotes
RECURSIVE Lang(_)
Lang(node) ==
    CASE node.kind = "Atom" -> {w \in {node.literal} : Len(w) <= MaxStr}
      [] node.kind = "Repeat" -> Star(Lang(node.pattern), {<<>>})
      [] node.kind = "Or" -> Lang(node.left) \cup Lang(node.right)
      [] node.kind = "Join" -> Concat(Lang(node.left), Lang(node.right))

NfaBuilt == pc \in {"from_nfa", "from_nfa_loop", "view", "done"}

Parsed == pc # "parse"

(* ---------------------------- C1 --------------------------------------- *)

\* C1: once compile_regex has returned, the NFA view of the DFA accepts a
\* string over the pattern's alphabet (of length <= MaxStr) iff the NFA does.
C1_DfaViewAcceptsSameLanguage ==
    pc = "done" =>
        \A w \in Str(MaxStr, AlphabetOf(nfa)) : NfaAccepts(dfa, w) <=> NfaAccepts(nfa, w)

\* (a|b)*c went through both constructions; the view accepts bbac, rejects ab
C1_Witness ==
    /\ pc = "done"
    /\ input = <<"(", "a", "|", "b", ")", "*", "c">>
    /\ NfaAccepts(dfa, <<"b", "b", "a", "c">>)
    /\ NfaAccepts(nfa, <<"b", "b", "a", "c">>)
    /\ ~NfaAccepts(dfa, <<"a", "b">>)
    /\ Len(dfa) > 1

(* ---------------------------- C2 --------------------------------------- *)

\* C2: the NFA built from a syntax tree accepts exactly the words (of length
\* <= MaxStr, over the tree's characters) of the language the tree denotes.
C2_NfaAcceptsLanguageOfAst ==
    NfaBuilt =>
        LET L == Lang(ast) IN
        \A w \in Str(MaxStr, AlphabetOf(nfa)) : NfaAccepts(nfa, w) <=> w \in L

\* the NFA of (a|b)*c accepts c, ac, abc, bbac and rejects "", ab, cc
C2_Witness ==
    /\ NfaBuilt
    /\ ast = StarOfOrThenC
    /\ \A w \in {<<"c">>, <<"a", "c">>, <<"a", "b", "c">>, <<"b", "b", "a", "c">>} :
            NfaAccepts(nfa, w) /\ w \in Lang(ast)
    /\ \A w \in {<<>>, <<"a", "b">>, <<"c", "c">>} : ~NfaAccepts(nfa, w) /\ w \notin Lang(ast)

(* ---------------------------- reference grammar ------------------------ *)
\*   alt  ::= cat ( "|" alt )?          cat ::= rep cat?
\*   rep  ::= prim "*"?                 prim ::= Literal | "(" alt ")"

\* the tokens of s, by repeated take_token
RECURSIVE Tokens(_)
Tokens(s) ==
    LET t == take_token(s) IN IF ~t.some THEN <<>> ELSE <<t.token>> \o Tokens(t.rest)

RefOk(node, ts) == [ok |-> TRUE, node |-> node, rest |-> ts]

RefFail == [ok |-> FALSE, node |-> NoNode, rest |-> <<>>]

RECURSIVE RefAlt(_)
RECURSIVE RefCat(_)
RECURSIVE RefPrim(_)

RefPrim(ts) ==
    IF ts = <<>> THEN RefFail
    ELSE IF Head(ts).kind = "Literal" THEN RefOk(Atom(Head(ts).literal), Tail(ts))
    ELSE IF Head(ts) = LParen THEN
        LET a == RefAlt(Tail(ts)) IN
        IF a.ok /\ a.rest # <<>> /\ Head(a.rest) = RParen
        THEN RefOk(a.node, Tail(a.rest)) ELSE RefFail
    ELSE RefFail

RefRep(ts) ==
    LET p == RefPrim(ts) IN
    IF p.ok /\ p.rest # <<>> /\ Head(p.rest) = Asterisk
    THEN RefOk(Repeat(p.node), Tail(p.rest)) ELSE p

RefCat(ts) ==
    LET r == RefRep(ts) IN
    IF r.ok /\ r.rest # <<>> /\ (Head(r.rest).kind = "Literal" \/ Head(r.rest) = LParen)
    THEN LET c == RefCat(r.rest) IN
         IF c.ok THEN RefOk(Join(r.node, c.node), c.rest) ELSE RefFail
    ELSE r

RefAlt(ts) ==
    LET c == RefCat(ts) IN
    IF c.ok /\ c.rest # <<>> /\ Head(c.rest) = VerticalBar
    THEN LET a == RefAlt(Tail(c.rest)) IN
         IF a.ok THEN RefOk(Or(c.node, a.node), a.rest) ELSE RefFail
    ELSE c

\* s is a sentence of the grammar
WellFormed(s) == LET a == RefAlt(Tokens(s)) IN a.ok /\ a.rest = <<>>

\* the tree the grammar gives a sentence
RefAst(s) == RefAlt(Tokens(s)).node

\* the number of groups open after s
Depth(s) ==
    Cardinality({i \in 1..Len(s) : s[i] = "("}) - Cardinality({i \in 1..Len(s) : s[i] = ")"})

\* s[i] may follow s[1..i-1] in some sentence of the grammar
FitsAt(s, i) ==
    CASE s[i] = "*" -> i > 1 /\ s[i - 1] \notin {"(", "|", "*"}
      [] s[i] = "|" -> i > 1 /\ s[i - 1] \notin {"(", "|"}
      [] s[i] = ")" -> i > 1 /\ s[i - 1] \notin {"(", "|"} /\ Depth(Take(s, i - 1)) > 0
      [] OTHER -> TRUE

\* s is a prefix of some sentence of the grammar
Viable(s) == \A i \in 1..Len(s) : FitsAt(s, i)

\* s ends with a primary: a literal character or a closing parenthesis
EndsWithPrimary(s) == s # <<>> /\ s[Len(s)] \notin {"(", "|", "*"}

\* some Join of the tree has an Or as its right operand
RECURSIVE JoinOverOr(_)
JoinOverOr(node) ==
    CASE node.kind = "Join" ->
            node.right.kind = "Or" \/ JoinOverOr(node.left) \/ JoinOverOr(node.right)
      [] node.kind = "Or" -> JoinOverOr(node.left) \/ JoinOverOr(node.right)
      [] node.kind = "Repeat" -> JoinOverOr(node.pattern)
      [] OTHER -> FALSE

\* what parse consumed of the input
Consumed == Take(input, Len(input) - Len(rest))

(* ---------------------------- C3 --------------------------------------- *)

\* C3: a well-formed pattern in which a group with a top-level `|` follows
\* another primary parses, the group's Or being the right operand of a Join.
C3_GroupAfterPrimaryParses ==
    (Parsed /\ WellFormed(input) /\ JoinOverOr(RefAst(input))) =>
        (err = "None" /\ ast = RefAst(input))

(* ---------------------------- C4 --------------------------------------- *)

\* some `)` of s has no unclosed `(` before it
StrayRParen(s) == \E i \in 1..Len(s) : s[i] = ")" /\ Depth(Take(s, i - 1)) = 0

\* C4: a pattern with a `)` that closes nothing fails with UnexpectedToken.
C4_StrayRParenIsUnexpectedToken ==
    (Parsed /\ StrayRParen(input)) => err = "UnexpectedToken"

(* ---------------------------- C5 --------------------------------------- *)

\* C5: a pattern that ends while a group is open fails with UnexpectedEnd.
C5_UnclosedGroupIsUnexpectedEnd ==
    (Parsed /\ Viable(input) /\ Depth(input) > 0) => err = "UnexpectedEnd"

(* ---------------------------- C6 --------------------------------------- *)

\* position i of s starts `**` right after a primary
DoubledAsteriskAt(s, i) ==
    /\ s[i] = "*" /\ s[i + 1] = "*"
    /\ Viable(Take(s, i - 1)) /\ EndsWithPrimary(Take(s, i - 1))

\* C6: a primary followed by two consecutive `*` makes the parse fail with
\* UnexpectedToken.
C6_DoubledAsteriskIsUnexpectedToken ==
    (Parsed /\ \E i \in 2..(Len(input) - 1) : DoubledAsteriskAt(input, i)) =>
        err = "UnexpectedToken"

\* (a)** has been rejected
C6_Witness ==
    /\ pc = "error"
    /\ input = <<"(", "a", ")", "*", "*">>
    /\ DoubledAsteriskAt(input, 4)
    /\ err = "UnexpectedToken"

(* ---------------------------- C7 --------------------------------------- *)

\* C7: the tree of a successful parse is the tree the grammar (grouping >
\* `*` > concatenation > alternation) gives to what the parse consumed.
C7_AstFollowsPrecedence ==
    (Parsed /\ err = "None") => (WellFormed(Consumed) /\ ast = RefAst(Consumed))

\* (a)(b)|(c)(d) gave Or(Join(a,b), Join(c,d))
C7_Witness ==
    /\ pc = "nfa"
    /\ input = <<"(", "a", ")", "(", "b", ")", "|", "(", "c", ")", "(", "d", ")">>
    /\ ast = Or(Join(Atom(<<"a">>), Atom(<<"b">>)), Join(Atom(<<"c">>), Atom(<<"d">>)))

(* ---------------------------- C8 --------------------------------------- *)

\* s is an expression that parsed, followed by a final `|`
TrailingBar(s) ==
    /\ Len(s) >= 2 /\ s[Len(s)] = "|"
    /\ LET p == from_str(Take(s, Len(s) - 1)) IN p.err = "None" /\ p.rest = <<>>

\* C8: the empty pattern fails with Empty; a pattern starting with `)`, `*`
\* or `|` fails with UnexpectedToken; an expression that parsed followed by a
\* final `|` fails with UnexpectedEnd.
C8_FirstTokenAndTrailingBarErrors ==
    Parsed =>
        /\ input = <<>> => err = "Empty"
        /\ (input # <<>> /\ input[1] \in {")", "*", "|"}) => err = "UnexpectedToken"
        /\ TrailingBar(input) => err = "UnexpectedEnd"

\* a|b| has been rejected with UnexpectedEnd
C8_Witness ==
    /\ pc = "error"
    /\ input = <<"a", "|", "b", "|">>
    /\ TrailingBar(input)
    /\ err = "UnexpectedEnd"

(* ---------------------------- C9 --------------------------------------- *)

\* state i of the view restates state i of the DFA
ViewOfState(v, d) ==
    /\ v.accepts = d.accepts
    /\ v.epsilon_transitions = <<>>
    /\ DOMAIN v.branches = DOMAIN d.branches
    /\ \A c \in DOMAIN d.branches : v.branches[c] = <<d.branches[c]>>

\* C9: the NFA view has the DFA's states in the DFA's order, each with the
\* same accepts flag, no epsilon transition, and for every character of the
\* DFA state exactly the one target of the DFA, for no other character any.
C9_ViewRestatesDfa ==
    pc = "done" =>
        /\ Len(dfa) = Len(original_dfa)
        /\ \A i \in 1..Len(dfa) : ViewOfState(dfa[i], original_dfa[i])
        /\ \A i \in 1..Len(dfa) : \A c \in DOMAIN dfa[i].branches : Len(dfa[i].branches[c]) = 1

\* a view of several states, with transitions, accepting and rejecting states
C9_Witness ==
    /\ pc = "done"
    /\ Len(dfa) >= 3
    /\ \E i \in 1..Len(dfa) : Cardinality(DOMAIN original_dfa[i].branches) >= 2
    /\ \E i, j \in 1..Len(dfa) : dfa[i].accepts /\ ~dfa[j].accepts

(* ---------------------------- C10 -------------------------------------- *)

\* C10: on every set of handles of a built NFA, the epsilon closure of the
\* epsilon closure is the epsilon closure.
C10_EpsilonClosureIdempotent ==
    NfaBuilt =>
        \A S \in SUBSET Handles(nfa) :
            epsilon_closure(nfa, SortedSeq(epsilon_closure(nfa, SortedSeq(S))))
                = epsilon_closure(nfa, SortedSeq(S))

\* an NFA with an epsilon cycle, and a handle whose closure takes two edges
C10_Witness ==
    /\ NfaBuilt
    /\ \E h, k \in Handles(nfa) :
          /\ h # k
          /\ k \in epsilon_closure(nfa, <<h>>)
          /\ h \in epsilon_closure(nfa, <<k>>)
    /\ \E h \in Handles(nfa) :
          epsilon_closure(nfa, <<h>>) # {h} \cup Range(At(nfa, h).epsilon_transitions)

(* ---------------------------- C11 -------------------------------------- *)

\* C11: Dfa::optimize returns normally: it never fails.
C11_OptimizeReturnsNormally == pc # "panicked"

(* ---------------------------- C12 -------------------------------------- *)

InFromNfa == pc \in {"from_nfa_loop", "view", "done", "panicked"}

\* the sets discovered so far, in the order they were pushed
Discovered == popped_states \o unchecked_states

\* state_map pairs the i-th discovered set with handle i-1, the handles are
\* those of states, and only the states of popped sets have branches
StateMapIsBijection ==
    InFromNfa =>
        /\ DOMAIN state_map = Range(Discovered)
        /\ \A i \in 1..Len(Discovered) : state_map[Discovered[i]] = i - 1
        /\ Len(states) = Len(Discovered)
        /\ \A i \in 1..Len(states) :
              i > Len(popped_states) => states[i].branches = EmptyMap

\* a step changes no existing state but the one of the set it pops
BranchesWrittenOnce ==
    \A i \in 1..Len(states) :
        states'[i] # states[i] => (pc = "from_nfa_loop" /\ i = Len(popped_states) + 1)

\* C12: throughout the worklist loop state_map is a bijection between the
\* discovered sets and the handles 0..states.len()-1, every set is pushed
\* once and popped once, and the branches of a state are written once.
C12_StateMapBijection == []StateMapIsBijection /\ [][BranchesWrittenOnce]_vars

\* a loop that met an already known set again and has sets left to pop
C12_Witness ==
    /\ pc = "from_nfa_loop"
    /\ Len(popped_states) >= 2
    /\ unchecked_states # <<>>
    /\ \E i \in 1..Len(popped_states) :
          \E c \in DOMAIN states[i].branches : states[i].branches[c] < i

(* ---------------------------- C13 -------------------------------------- *)

\* C13: on every sequence of handles (any order, duplicates allowed, up to
\* MaxSeq long) epsilon_closure returns the least set that contains the
\* handles and is closed under epsilon edges; transitions() maps exactly the
\* characters some state of the set has a branch for, each to the epsilon
\* closure of the union of the branches for it.
C13_ClosureIsLeastFixedPoint ==
    pc = "from_nfa" =>
        /\ \A sts \in Str(MaxSeq, Handles(nfa)) :
              epsilon_closure(nfa, sts) = EpsReach(nfa, Range(sts))
        /\ \A S \in SUBSET Handles(nfa) :
              LET tr == transitions(nfa, S) IN
              /\ DOMAIN tr = {c \in AlphabetOf(nfa) : Move(nfa, S, c) # {}}
              /\ \A c \in DOMAIN tr : tr[c] = EpsReach(nfa, Move(nfa, S, c))

\* a descending sequence with a duplicate whose closure adds handles but not
\* the target of a character branch, and a transition whose closure adds handles
C13_Witness ==
    /\ pc = "from_nfa"
    /\ \E h, k \in Handles(nfa) :
          /\ h > k
          /\ epsilon_closure(nfa, <<h, k, h>>) # {h, k}
          /\ \E c \in DOMAIN At(nfa, k).branches :
                At(nfa, k).branches[c][1] \notin epsilon_closure(nfa, <<h, k, h>>)
    /\ \E S \in SUBSET Handles(nfa) :
          \E c \in DOMAIN transitions(nfa, S) : transitions(nfa, S)[c] # Move(nfa, S, c)

(* ---------------------------- C14 -------------------------------------- *)

\* the DFA state of the canonical set S accepts iff some handle of S does
AcceptsOfSet(d, S) == At(d, state_map[S]).accepts <=> \E h \in S : At(nfa, h).accepts

\* C14: every DFA state, state 0 (the closure of {0}) included, accepts iff
\* some NFA handle of its canonical set accepts.
C14_DfaAcceptsIffSomeHandleAccepts ==
    /\ InFromNfa =>
          /\ state_map[EpsReach(nfa, {0})] = 0
          /\ \A S \in DOMAIN state_map : AcceptsOfSet(states, S)
    /\ pc \in {"view", "done", "panicked"} =>
          /\ Len(original_dfa) = Cardinality(DOMAIN state_map)
          /\ \A S \in DOMAIN state_map : AcceptsOfSet(original_dfa, S)

\* a returned DFA whose state 0 accepts though NFA state 0 does not, with a
\* rejecting state, and an accepting state whose set has a rejecting handle
C14_Witness ==
    /\ pc = "view"
    /\ At(original_dfa, 0).accepts /\ ~At(nfa, 0).accepts
    /\ \E i \in Handles(original_dfa) : ~At(original_dfa, i).accepts
    /\ \E S \in DOMAIN state_map :
          /\ state_map[S] # 0
          /\ At(original_dfa, state_map[S]).accepts
          /\ \E h \in S : ~At(nfa, h).accepts

(* ---------------------------- C15 -------------------------------------- *)

RECURSIVE Pow2(_)
Pow2(n) == IF n = 0 THEN 1 ELSE 2 * Pow2(n - 1)

\* the loop cannot fail and is bounded: every set on the worklist is a
\* non-empty set of valid handles with an entry in state_map (the unwrap of
\* lib.rs:151), and the sets popped or waiting number at most 2^n
FromNfaCannotFail ==
    InFromNfa =>
        /\ Len(nfa) >= 1
        /\ \A S \in Range(unchecked_states) :
              S # {} /\ S \subseteq Handles(nfa) /\ S \in DOMAIN state_map
        /\ Len(popped_states) + Len(unchecked_states) <= Pow2(Len(nfa))
        /\ Len(states) <= Pow2(Len(nfa))

\* an iteration takes the first set off the worklist, for good, and appends
\* the sets it discovers; with the worklist empty the function returns
IterationConsumesOneSet ==
    pc = "from_nfa_loop" =>
        IF unchecked_states = <<>> THEN pc' = "view"
        ELSE /\ popped_states' = Append(popped_states, Head(unchecked_states))
             /\ Head(unchecked_states) \notin Range(popped_states)
             /\ Len(unchecked_states') >= Len(unchecked_states) - 1
             /\ Take(unchecked_states', Len(unchecked_states) - 1) = Tail(unchecked_states)

\* C15: Dfa::from_nfa on an NFA of Nfa::from_regex cannot fail and terminates:
\* every iteration pops one set that was never popped before, at most 2^n
\* sets are ever popped or waiting (n the number of NFA states), so the
\* worklist empties and the DFA returned has at most 2^n states.
C15_FromNfaTerminates == []FromNfaCannotFail /\ [][IterationConsumesOneSet]_vars

\* from_nfa has returned for an NFA with an epsilon cycle after two or
\* more iterations
C15_Witness ==
    /\ pc = "view"
    /\ unchecked_states = <<>>
    /\ Len(popped_states) >= 2
    /\ Len(original_dfa) = Len(popped_states)
    /\ \E h \in Handles(nfa) :
          \E k \in Range(At(nfa, h).epsilon_transitions) : h \in EpsReach(nfa, {k}) /\ h # k

(* ---------------------------- C16 -------------------------------------- *)

\* the handles one transition, on a character or on epsilon, leads to from h
Successors(m, h) ==
    UNION {Range(At(m, h).branches[c]) : c \in DOMAIN At(m, h).branches}
        \cup Range(At(m, h).epsilon_transitions)

\* the handles reachable from S over character and epsilon transitions
RECURSIVE GraphReach(_, _)
GraphReach(m, S) ==
    LET T == S \cup UNION {Successors(m, s) \cap Handles(m) : s \in S}
    IN  IF T = S THEN S ELSE GraphReach(m, T)

NfaReturned == pc \in {"from_nfa", "from_nfa_loop", "view", "done", "panicked"}

\* C16: in the NFA Nfa::from_regex returns, every state is reachable from
\* handle 0 over character and epsilon transitions, and every handle stored
\* in a branches list or an epsilon_transitions list indexes states.
C16_NfaConnectedAndHandlesValid ==
    NfaReturned =>
        /\ GraphReach(nfa, {0}) = Handles(nfa)
        /\ \A h \in Handles(nfa) : Successors(nfa, h) \subseteq Handles(nfa)

\* an NFA with two epsilon edges out of one state and a character edge
C16_Witness ==
    /\ pc = "from_nfa"
    /\ Len(nfa) >= 5
    /\ \E h \in Handles(nfa) : Len(At(nfa, h).epsilon_transitions) >= 2
    /\ \E h \in Handles(nfa) : DOMAIN At(nfa, h).branches # {}

(* ---------------------------- C17 -------------------------------------- *)

\* literal characters + Repeat nodes + Or nodes of a syntax tree
RECURSIVE AllocCount(_)
AllocCount(node) ==
    CASE node.kind = "Atom" -> Len(node.literal)
      [] node.kind = "Repeat" -> 1 + AllocCount(node.pattern)
      [] node.kind = "Or" -> 1 + AllocCount(node.left) + AllocCount(node.right)
      [] node.kind = "Join" -> AllocCount(node.left) + AllocCount(node.right)

\* the NFA of the pattern a
NfaOfA ==
    << [branches |-> [c \in {"a"} |-> <<1>>], epsilon_transitions |-> <<>>, accepts |-> FALSE],
       [branches |-> EmptyMap, epsilon_transitions |-> <<>>, accepts |-> TRUE] >>

\* C17: the NFA of a parsed pattern has 1 + literal characters + Repeat
\* nodes + Or nodes states, hence at most pattern length + 1; the pattern a
\* gives two states, 0 -a-> [1], only state 1 accepting.
C17_NfaStateCount ==
    NfaReturned =>
        /\ Len(nfa) = 1 + AllocCount(ast)
        /\ Len(nfa) <= Len(input) + 1
        /\ input = <<"a">> => nfa = NfaOfA

\* the NFA of a pattern with a Repeat, an Or and a Join has been built
C17_Witness ==
    /\ pc = "from_nfa"
    /\ ast.kind = "Or"
    /\ ast.left.kind = "Join"
    /\ ast.left.left.kind = "Repeat"
    /\ Len(nfa) = Len(input) + 1

(* ---------------------------- C18 -------------------------------------- *)

\* the text a token stands for
TokenText(t) ==
    CASE t.kind = "LParen" -> <<"(">>
      [] t.kind = "RParen" -> <<")">>
      [] t.kind = "Asterisk" -> <<"*">>
      [] t.kind = "VerticalBar" -> <<"|">>
      [] t.kind = "Literal" -> t.literal
      [] OTHER -> <<>>

\* the token of a special character
SpecialToken(c) ==
    CASE c = "(" -> LParen
      [] c = ")" -> RParen
      [] c = "*" -> Asterisk
      [] c = "|" -> VerticalBar

\* take_token splits s into a first token and the remainder
TakeTokenSplits(s) ==
    LET t == take_token(s) IN
    IF s = <<>> THEN ~t.some
    ELSE /\ t.some
         /\ TokenText(t.token) \o t.rest = s
         /\ IF s[1] \in SpecialChars
            THEN t.token = SpecialToken(s[1]) /\ t.rest = Tail(s)
            ELSE /\ t.token.kind = "Literal"
                 /\ t.token.literal # <<>>
                 /\ \A i \in 1..Len(t.token.literal) : t.token.literal[i] \notin SpecialChars
                 /\ t.rest = <<>> \/ t.rest[1] \in SpecialChars

NoConsecutiveLiterals(ts) ==
    \A i \in 1..(Len(ts) - 1) : ~(ts[i].kind = "Literal" /\ ts[i + 1].kind = "Literal")

\* C18: take_token splits a prefix off its input: None on the empty input,
\* the one-character token and the tail on a special character, otherwise
\* the maximal run of ordinary characters as a Literal; the token's text
\* followed by the remainder is the input, and repeated calls never give two
\* Literal tokens in a row.
C18_TakeTokenIsPrefixSplit ==
    /\ \A k \in 0..Len(input) : TakeTokenSplits(Drop(input, k))
    /\ NoConsecutiveLiterals(Tokens(input))

\* the parser has tokenized a pattern with a literal of two characters, a
\* special character and a further literal
C18_Witness ==
    /\ pc # "parse"
    /\ \E i \in 1..(Len(Tokens(input)) - 2) :
          /\ Tokens(input)[i].kind = "Literal"
          /\ Len(Tokens(input)[i].literal) >= 2
          /\ Tokens(input)[i + 1].kind # "Literal"
          /\ Tokens(input)[i + 2].kind = "Literal"

(* ---------------------------- C19 -------------------------------------- *)

\* the handles reachable from S over the branches of a DFA
RECURSIVE DfaReach(_, _)
DfaReach(d, S) ==
    LET T == S \cup UNION {Range(At(d, s).branches) \cap Handles(d) : s \in S}
    IN  IF T = S THEN S ELSE DfaReach(d, T)

FromNfaReturned == pc \in {"view", "done", "panicked"}

\* C19: every state of the DFA Dfa::from_nfa returns is reachable from handle
\* 0 over branches, reachable_states(dfa, 0) is the full set of handles (what
\* optimize computes before it stops), and every branch target indexes states.
C19_DfaAllReachable ==
    FromNfaReturned =>
        /\ DfaReach(original_dfa, {0}) = Handles(original_dfa)
        /\ reachable_states(original_dfa, 0) = Handles(original_dfa)
        /\ pc = "panicked" => reachables = Handles(original_dfa)
        /\ \A h \in Handles(original_dfa) :
              Range(At(original_dfa, h).branches) \subseteq Handles(original_dfa)

\* optimize has computed the reachable handles of a DFA with a state two
\* branches away from handle 0
C19_Witness ==
    /\ pc = "panicked"
    /\ Len(original_dfa) >= 4
    /\ \E h \in Handles(original_dfa) : h \notin {0} \cup Range(At(original_dfa, 0).branches)

====
